---- MODULE Spec2Model ----
(***************************************************************************)
(* A model of verdin's QueuingDatasourceAppender (src/verdin/worker.py):   *)
(* one worker thread running run(), producers putting records on the      *)
(* source queue, and threads calling close(); and of the page iterator     *)
(* PagedPipeQuery (src/verdin/pipe.py), which has a specification of its   *)
(* own, PagedSpec.                                                         *)
(*                                                                         *)
(* Records are numbered 1, 2, ... in the order in which they are put on    *)
(* the queue.  Durations are counted in half seconds, so that the 0.5 s    *)
(* margin of _parse_retry_seconds is the integer 1.                        *)
(***************************************************************************)
EXTENDS Integers, Sequences, FiniteSets, TLC

\* ---------------------------------------------------------------- bounds
MaxRecords == 3
MaxCloses == 2
MaxPageSize == 3
MaxStartAt == 2
MaxRows == 5
MaxHint == 30
MaxQueue == 4
MaxN == 3

\* ------------------------------------------------------------- constants
marker == 0
default_retry_after == 12
default_wait_after_rate_limit == 12
default_min_interval == 5
default_max_retries == 10
flush_max_retries == 2
retry_margin == 1
rate_limited == 429

Seconds(s) == 2 * s

VARIABLES
    source,                 \* self.source: the queue of records and markers
    stopped,                \* self.stopped: the multiprocessing.Event
    min_interval,           \* self.min_interval, in half seconds
    wait_after_rate_limit,  \* self.wait_after_rate_limit, in half seconds
    pc,                     \* where the thread executing run() is
    result,                 \* _get_batch's result / the batch of _retry_batch
    n,                      \* _get_batch's n
    attempts,               \* iterations of _retry_batch's for loop begun
    limited,                \* _retry_batch's limited
    response,               \* _retry_batch's response
    wait,                   \* the duration of the sleep the worker is in
    elapsed,                \* whether that duration has passed
    flushing,               \* inside run()'s `except StopWorker` handler
    cpc,                    \* how many close() calls are at each place of close()
    nput,                   \* history: number of records put so far
    log,                    \* history: the batches passed to append, each once
    snapshot,               \* history: the queue just before the first get() of the
                            \*          current batch took its item
    outcome,                \* history: how the last _retry_batch call ended
    collectedAt,            \* history: the batch being collected when close() was called,
                            \*          until the _retry_batch call for it has ended
    sequential,             \* history: a close() was called after another had returned
    putBeforeClose          \* history: the number of records put before the first
                            \*          close() call began

VARIABLES
    limit,                  \* PagedPipeQuery.limit
    offset,                 \* PagedPipeQuery.offset
    table,                  \* the number of rows the pipe has to give
    iter,                   \* where the `for page in PagedPipeQuery(...)` loop is
    start_at,               \* history: the start_at the iterator was made with
    queries,                \* history: the queries passed to pipe.sql
    pages                   \* history: the responses the iterator returned

vars == <<source, stopped, min_interval, wait_after_rate_limit, pc, result, n,
          attempts, limited, response, wait, elapsed, flushing, cpc, nput, log,
          snapshot, outcome, collectedAt, sequential, putBeforeClose,
          limit, offset, table, iter, start_at, queries, pages>>

paging == <<limit, offset, table, iter, start_at, queries, pages>>

config == <<min_interval, wait_after_rate_limit>>
worker == <<pc, result, n, attempts, limited, response, wait, elapsed, flushing>>
history == <<nput, log, snapshot, outcome, collectedAt, sequential,
             putBeforeClose>>


\* ------------------------------------------------------ sequence helpers
Last(s) == s[Len(s)]

RECURSIVE Flatten(_)
Flatten(ss) == IF ss = <<>> THEN <<>> ELSE Head(ss) \o Flatten(Tail(ss))

IsPrefix(s, t) == Len(s) <= Len(t) /\ SubSeq(t, 1, Len(s)) = s

IsRecord(item) == item # marker

\* the records of a queue content, in queue order
Records(q) == SelectSeq(q, IsRecord)

\* the items of a queue content ahead of its first marker
RECURSIVE BeforeMarker(_)
BeforeMarker(q) ==
    IF q = <<>> \/ Head(q) = marker THEN <<>>
    ELSE <<Head(q)>> \o BeforeMarker(Tail(q))

Batches == [ i \in DOMAIN log |-> log[i].batch ]

\* ------------------------------------------------------ the sink's answers
NoHeaders == [k \in {} |-> ""]
Both(v, w) == [k \in {"Retry-After", "X-Ratelimit-Reset"} |->
                 IF k = "Retry-After" THEN v ELSE w]

\* the responses the sink gives: success, a failure, and rate-limited ones with no
\* hints, with numeric hints and with unparseable ones
Responses ==
    { [status |-> 200, headers |-> NoHeaders],
      [status |-> 500, headers |-> NoHeaders],
      [status |-> rate_limited, headers |-> NoHeaders],
      [status |-> rate_limited, headers |-> Both("1", "1")],
      [status |-> rate_limited, headers |-> Both("soon", "soon")] }
None == [status |-> 0, headers |-> NoHeaders]

\* requests.Response.ok
Ok(r) == r.status < 400

\* dict.get(key, default)
Get(h, k, d) == IF k \in DOMAIN h THEN h[k] ELSE d

\* the decimal string of a duration of h half seconds: "0", "0.5", "1", "1.5", ...
Decimal(h) == ToString(h \div 2) \o (IF h % 2 = 1 THEN ".5" ELSE "")

\* float(s) of a header string, in half seconds, for the decimal strings up to
\* MaxHint half seconds; "", "soon" and an HTTP date raise ValueError
FloatTable ==
    [s \in { Decimal(h) : h \in 0 .. MaxHint } |->
        CHOOSE h \in 0 .. MaxHint : Decimal(h) = s]
IsFloat(s) == s \in DOMAIN FloatTable
Float(s) == FloatTable[s]

\* _parse_retry_seconds: the wait after a rate-limited response
_parse_retry_seconds_exact(r) ==
    LET retry == Get(r.headers, "Retry-After", "")
    IN  IF retry # "" /\ IsFloat(retry)
        THEN Float(retry)
        ELSE Seconds(default_retry_after)

_parse_retry_seconds(r) ==
    LET retry == Get(r.headers, "Retry-After", "")
    IN  IF retry # "" /\ IsFloat(retry)
        THEN Float(retry) + retry_margin
        ELSE Seconds(default_retry_after)

\* the max_retries of the _retry_batch call the worker is in
MaxRetriesAlwaysDefault == default_max_retries

MaxRetriesOneMore ==
    IF flushing THEN flush_max_retries ELSE default_max_retries + 1

MaxRetries == IF flushing THEN flush_max_retries ELSE default_max_retries

ClosePlaces == {"set", "put", "done", "returned"}

\* the settings of the appender: the defaults, and both waits switched off
Configs ==
    { <<Seconds(default_min_interval), Seconds(default_wait_after_rate_limit)>>,
      <<0, 0>> }

\* ---------------------------------------------------------------- Init
\* no PagedPipeQuery is made
NoPager ==
    /\ limit = 0
    /\ offset = 0
    /\ table = 0
    /\ iter = "none"
    /\ start_at = 0
    /\ queries = <<>>
    /\ pages = <<>>

Init ==
    /\ source = <<>>
    /\ stopped = FALSE
    /\ \E c \in Configs : min_interval = c[1] /\ wait_after_rate_limit = c[2]
    /\ pc = "loop"
    /\ result = <<>>
    /\ n = 0
    /\ attempts = 0
    /\ limited = FALSE
    /\ response = None
    /\ wait = 0
    /\ elapsed = FALSE
    /\ flushing = FALSE
    /\ cpc = [p \in ClosePlaces |-> 0]
    /\ nput = 0
    /\ log = <<>>
    /\ snapshot = <<>>
    /\ outcome = "none"
    /\ collectedAt = <<>>
    /\ sequential = FALSE
    /\ putBeforeClose = 0
    /\ NoPager

\* --------------------------------------------------------------- producers
\* source.put(record), from any thread
Put ==
    /\ nput < MaxRecords
    /\ source' = Append(source, nput + 1)
    /\ nput' = nput + 1
    /\ UNCHANGED <<stopped, config, paging, worker, cpc, log, snapshot,
                   outcome, collectedAt, sequential, putBeforeClose>>

\* ----------------------------------------------------------------- close()
Collecting == pc \in {"qsize", "drain"}

\* the places of a close() call: before `self.stopped.set()`, before
\* `self.source.put_nowait(...)`, returned after the put, returned at once
CloseCalls == cpc["set"] + cpc["put"] + cpc["done"] + cpc["returned"]
CloseReturned == cpc["done"] + cpc["returned"]

Move(from, to) ==
    [p \in ClosePlaces |->
        IF p = from THEN cpc[p] - 1 ELSE IF p = to THEN cpc[p] + 1 ELSE cpc[p]]

\* whether close() goes on after `if self.stopped.is_set(): return`
CloseAlwaysProceeds == TRUE

CloseProceeds == ~stopped

\* a thread calls close(): `if self.stopped.is_set(): return`
CloseCheck ==
    /\ CloseCalls < MaxCloses
    /\ cpc' = Move("idle", IF CloseProceeds THEN "set" ELSE "returned")
    /\ collectedAt' = IF Collecting THEN result ELSE collectedAt
    /\ sequential' = (sequential \/ CloseReturned > 0)
    /\ putBeforeClose' = putBeforeClose
    /\ UNCHANGED <<source, stopped, config, paging, worker, nput, log,
                   snapshot, outcome>>

\* the same step, with the history of what was put before the first call
CloseCheckRecorded ==
    /\ CloseCalls < MaxCloses
    /\ cpc' = Move("idle", IF CloseProceeds THEN "set" ELSE "returned")
    /\ collectedAt' = IF Collecting THEN result ELSE collectedAt
    /\ sequential' = (sequential \/ CloseReturned > 0)
    /\ putBeforeClose' = IF CloseCalls = 0 THEN nput ELSE putBeforeClose
    /\ UNCHANGED <<source, stopped, config, paging, worker, nput, log,
                   snapshot, outcome>>

\* close(), `self.stopped.set()`
CloseSetNothing ==
    /\ cpc["set"] > 0
    /\ cpc' = Move("set", "put")
    /\ UNCHANGED <<source, stopped, config, paging, worker, history>>

CloseSet ==
    /\ cpc["set"] > 0
    /\ stopped' = TRUE
    /\ cpc' = Move("set", "put")
    /\ UNCHANGED <<source, config, paging, worker, history>>

\* close(), `self.source.put_nowait(StopWorker.marker)`
ClosePutInFront ==
    /\ cpc["put"] > 0
    /\ source' = <<marker>> \o source
    /\ cpc' = Move("put", "done")
    /\ UNCHANGED <<stopped, config, paging, worker, history>>

ClosePutNothing ==
    /\ cpc["put"] > 0
    /\ cpc' = Move("put", "done")
    /\ UNCHANGED <<source, stopped, config, paging, worker, history>>

ClosePut ==
    /\ cpc["put"] > 0
    /\ source' = Append(source, marker)
    /\ cpc' = Move("put", "done")
    /\ UNCHANGED <<stopped, config, paging, worker, history>>

\* ------------------------------------------------------------------- run()
\* the end of an iteration's locals
ClearLocals ==
    /\ result' = <<>>
    /\ n' = 0
    /\ attempts' = 0
    /\ limited' = FALSE
    /\ response' = None
    /\ collectedAt' = <<>>
    /\ snapshot' = <<>>

\* `if self.min_interval: self.stopped.wait(self.min_interval)`, then the loop head
GoPace ==
    IF min_interval # 0
    THEN pc' = "pace" /\ wait' = min_interval /\ elapsed' = FALSE
    ELSE pc' = "loop" /\ wait' = 0 /\ elapsed' = FALSE

\* run() returns (its finally clause only logs)
GoOnCollecting == pc' = "get" /\ wait' = 0 /\ elapsed' = FALSE

GoDone == pc' = "done" /\ wait' = 0 /\ elapsed' = FALSE

\* `while not self.stopped.is_set()`
LoopForever == TRUE

LoopGoesOn == ~stopped

LoopHead ==
    /\ pc = "loop"
    /\ pc' = IF LoopGoesOn THEN "get" ELSE "done"
    /\ outcome' = "none"
    /\ UNCHANGED <<source, stopped, config, paging, result, n, attempts,
                   limited, response, wait, elapsed, flushing, cpc, nput, log,
                   snapshot, collectedAt, sequential, putBeforeClose>>

\* _get_batch: `item = q.get()`, blocking; the marker raises StopWorker(), whose
\* batch is None, so run() returns without a flush
GetFirst ==
    /\ pc = "get"
    /\ source # <<>>
    /\ source' = Tail(source)
    /\ IF Head(source) = marker
       THEN /\ pc' = "done"
            /\ flushing' = TRUE
            /\ result' = <<>>
            /\ snapshot' = <<>>
       ELSE /\ pc' = "qsize"
            /\ flushing' = FALSE
            /\ result' = <<Head(source)>>
            /\ snapshot' = source
    /\ UNCHANGED <<stopped, config, paging, n, attempts, limited, response,
                   wait, elapsed, cpc, nput, log, outcome, collectedAt,
                   sequential, putBeforeClose>>

\* _get_batch: `if not n: n = q.qsize()`
QSize ==
    /\ pc = "qsize"
    /\ n' = IF n = 0 THEN Len(source) ELSE n
    /\ pc' = "drain"
    /\ UNCHANGED <<source, stopped, config, paging, result, attempts, limited,
                   response, wait, elapsed, flushing, cpc, history>>

\* _get_batch: the condition of `while len(result) <= n`
DrainMoreStrict(res, bound) == Len(res) < bound

DrainMore(res, bound) == Len(res) <= bound

\* _get_batch: `result.append(item)`
CollectNothing(res, item) == res

CollectInFront(res, item) == <<item>> \o res

Collect(res, item) == Append(res, item)

\* _get_batch: one `item = q.get(block=False)` that returns a record
DrainAnyItem ==
    /\ pc = "drain"
    /\ DrainMore(result, n)
    /\ source # <<>>
    /\ result' = Collect(result, Head(source))
    /\ source' = Tail(source)
    /\ UNCHANGED <<stopped, config, paging, pc, n, attempts, limited, response,
                   wait, elapsed, flushing, cpc, history>>

DrainRecord ==
    /\ pc = "drain"
    /\ DrainMore(result, n)
    /\ source # <<>>
    /\ Head(source) # marker
    /\ result' = Collect(result, Head(source))
    /\ source' = Tail(source)
    /\ UNCHANGED <<stopped, config, paging, pc, n, attempts, limited, response,
                   wait, elapsed, flushing, cpc, history>>

\* _get_batch: q.get(block=False) returns the marker: StopWorker(result) is raised
\* and run() calls _retry_batch(e.batch, max_retries=2)
DrainMarkerNoFlush ==
    /\ pc = "drain"
    /\ DrainMore(result, n)
    /\ source # <<>>
    /\ Head(source) = marker
    /\ source' = Tail(source)
    /\ flushing' = TRUE
    /\ pc' = "done"
    /\ n' = 0
    /\ UNCHANGED <<stopped, config, paging, result, attempts, limited,
                   response, wait, elapsed, cpc, history>>

DrainMarker ==
    /\ pc = "drain"
    /\ DrainMore(result, n)
    /\ source # <<>>
    /\ Head(source) = marker
    /\ source' = Tail(source)
    /\ flushing' = TRUE
    /\ pc' = "retry"
    /\ n' = 0
    /\ attempts' = 0
    /\ limited' = FALSE
    /\ response' = None
    /\ UNCHANGED <<stopped, config, paging, result, wait, elapsed, cpc,
                   history>>

\* _get_batch: the loop ends (n more items taken, or Empty) and the batch is
\* returned; _do_next_batch calls _retry_batch(batch)
DrainEnd ==
    /\ pc = "drain"
    /\ ~DrainMore(result, n) \/ source = <<>>
    /\ pc' = "retry"
    /\ n' = 0
    /\ attempts' = 0
    /\ limited' = FALSE
    /\ response' = None
    /\ UNCHANGED <<source, stopped, config, paging, result, wait, elapsed,
                   flushing, cpc, history>>

\* _retry_batch: `response = self.destination.append(batch)` is called, in the
\* next iteration of `for _ in range(max_retries)`
AppendCallDetached ==
    /\ pc = "retry"
    /\ attempts < MaxRetries
    /\ attempts' = attempts + 1
    /\ pc' = IF flushing THEN "appending" ELSE "get"
    /\ IF attempts = 0
       THEN log' = Append(log, [batch |-> result, ok |-> FALSE])
       ELSE UNCHANGED log
    /\ UNCHANGED <<source, stopped, config, paging, result, n, limited,
                   response, wait, elapsed, flushing, cpc, nput, snapshot,
                   outcome, collectedAt, sequential, putBeforeClose>>

AppendCall ==
    /\ pc = "retry"
    /\ attempts < MaxRetries
    /\ attempts' = attempts + 1
    /\ pc' = "appending"
    /\ IF attempts = 0
       THEN log' = Append(log, [batch |-> result, ok |-> FALSE])
       ELSE UNCHANGED log
    /\ UNCHANGED <<source, stopped, config, paging, result, n, limited,
                   response, wait, elapsed, flushing, cpc, nput, snapshot,
                   outcome, collectedAt, sequential, putBeforeClose>>

\* _do_next_batch, after _retry_batch returned: the wait of a rate-limited batch
\* (wait_after_rate_limit, else X-Ratelimit-Reset, whose default is 0 and whose
\* ValueError is caught); then run()'s min_interval wait
AfterRetryNoPause(resp, lim) == GoPace

AfterRetry(resp, lim) ==
    IF ~lim THEN GoPace
    ELSE IF wait_after_rate_limit # 0
    THEN pc' = "post_wait" /\ wait' = wait_after_rate_limit /\ elapsed' = FALSE
    ELSE LET reset == Get(resp.headers, "X-Ratelimit-Reset", "0")
         IN  IF IsFloat(reset)
             THEN pc' = "post_wait" /\ wait' = Float(reset)
                  /\ elapsed' = (Float(reset) = 0)
             ELSE GoPace

\* _retry_batch returns (response, limited) to its caller: to run()'s StopWorker
\* handler, which returns, or to _do_next_batch
ReturnRequeueing(out, resp, lim) ==
    /\ log' = [log EXCEPT ![Len(log)].ok = (out = "ok")]
    /\ outcome' = out
    /\ IF flushing THEN GoDone ELSE AfterRetry(resp, lim)
    /\ ClearLocals
    /\ source' = IF out = "ok" THEN source ELSE source \o result
    /\ UNCHANGED <<stopped, config, paging, flushing, cpc, nput, sequential,
                   putBeforeClose>>

Return(out, resp, lim) ==
    /\ log' = [log EXCEPT ![Len(log)].ok = (out = "ok")]
    /\ outcome' = out
    /\ IF flushing THEN GoDone ELSE AfterRetry(resp, lim)
    /\ ClearLocals
    /\ UNCHANGED <<source, stopped, config, paging, flushing, cpc, nput,
                   sequential, putBeforeClose>>

\* _retry_batch: the for loop ends without a return
RetryExhausted ==
    /\ pc = "retry"
    /\ attempts >= MaxRetries
    /\ Return("exhausted", response, limited)

\* _retry_batch: append returns a response with `response.ok`
AppendOk(r) ==
    /\ pc = "appending"
    /\ Ok(r)
    /\ Return("ok", r, limited)

\* _retry_batch: append returns a response with status 429
AppendLimitedNoLastSleep(r) ==
    /\ pc = "appending"
    /\ ~Ok(r)
    /\ r.status = rate_limited
    /\ response' = r
    /\ wait' = IF attempts < MaxRetries THEN _parse_retry_seconds(r) ELSE 0
    /\ elapsed' = FALSE
    /\ limited' = TRUE
    /\ pc' = IF attempts < MaxRetries THEN "backoff" ELSE "retry"
    /\ UNCHANGED <<source, stopped, config, paging, result, n, attempts,
                   flushing, cpc, history>>

AppendLimited(r) ==
    /\ pc = "appending"
    /\ ~Ok(r)
    /\ r.status = rate_limited
    /\ response' = r
    /\ wait' = _parse_retry_seconds(r)
    /\ elapsed' = FALSE
    /\ limited' = TRUE
    /\ pc' = "backoff"
    /\ UNCHANGED <<source, stopped, config, paging, result, n, attempts,
                   flushing, cpc, history>>

\* _retry_batch: append returns any other response: "dropping batch"
AppendErrorRetried(r) ==
    /\ pc = "appending"
    /\ ~Ok(r)
    /\ r.status # rate_limited
    /\ response' = r
    /\ wait' = Seconds(default_retry_after)
    /\ elapsed' = FALSE
    /\ pc' = "backoff"
    /\ UNCHANGED <<source, stopped, config, paging, result, n, attempts,
                   limited, flushing, cpc, history>>

AppendError(r) ==
    /\ pc = "appending"
    /\ ~Ok(r)
    /\ r.status # rate_limited
    /\ Return("error", r, limited)

\* where an exception raised by destination.append ends up. In _do_next_batch it
\* is returned, raised again by run() and logged by run()'s `except Exception`,
\* and the loop goes on; in the StopWorker handler nothing catches it
RaiseThenPace == IF flushing THEN "raised" ELSE "pace"

RaiseUncaught == "raised"

RaiseLandsAt == IF flushing THEN "raised" ELSE "loop"

\* destination.append raises
AppendRaise ==
    /\ pc = "appending"
    /\ outcome' = "exception"
    /\ pc' = RaiseLandsAt
    /\ wait' = 0
    /\ elapsed' = FALSE
    /\ ClearLocals
    /\ UNCHANGED <<source, stopped, config, paging, flushing, cpc, nput, log,
                   sequential, putBeforeClose>>

\* ------------------------------------------------------------------ sleeps
Sleeping == pc \in {"backoff", "post_wait", "pace"}

\* time goes by until the duration of the current sleep has passed
TimePasses ==
    /\ Sleeping
    /\ ~elapsed
    /\ elapsed' = TRUE
    /\ UNCHANGED <<source, stopped, config, paging, pc, result, n, attempts,
                   limited, response, wait, flushing, cpc, history>>

\* time.sleep(wait) returns
SleepOver == elapsed

\* self.stopped.wait(timeout) returns
EventWaitUntilSet == stopped

EventWaitUntilTimeout == elapsed

EventWaitOver == elapsed \/ stopped

\* _retry_batch: `time.sleep(wait)`, then `continue`
BackoffReturnMerging ==
    /\ pc = "backoff"
    /\ SleepOver
    /\ pc' = "retry"
    /\ wait' = 0
    /\ elapsed' = FALSE
    /\ result' = result \o BeforeMarker(source)
    /\ source' = SubSeq(source, Len(BeforeMarker(source)) + 1, Len(source))
    /\ UNCHANGED <<stopped, config, paging, n, attempts, limited, response,
                   flushing, cpc, history>>

BackoffReturn ==
    /\ pc = "backoff"
    /\ SleepOver
    /\ pc' = "retry"
    /\ wait' = 0
    /\ elapsed' = FALSE
    /\ UNCHANGED <<source, stopped, config, paging, result, n, attempts,
                   limited, response, flushing, cpc, history>>

\* _do_next_batch: `time.sleep(wait)`, then back in run()
PostWaitReturnToLoop ==
    /\ pc = "post_wait"
    /\ SleepOver
    /\ pc' = "loop"
    /\ wait' = 0
    /\ elapsed' = FALSE
    /\ UNCHANGED <<source, stopped, config, paging, result, n, attempts,
                   limited, response, flushing, cpc, history>>

PostWaitReturn ==
    /\ pc = "post_wait"
    /\ SleepOver
    /\ GoPace
    /\ UNCHANGED <<source, stopped, config, paging, result, n, attempts,
                   limited, response, flushing, cpc, history>>

\* run(): `self.stopped.wait(self.min_interval)`
PaceReturn ==
    /\ pc = "pace"
    /\ EventWaitOver
    /\ pc' = "loop"
    /\ wait' = 0
    /\ elapsed' = FALSE
    /\ UNCHANGED <<source, stopped, config, paging, result, n, attempts,
                   limited, response, flushing, cpc, history>>

\* ------------------------------------------------------------ specification
Worker ==
    \/ LoopHead
    \/ GetFirst
    \/ QSize
    \/ DrainRecord
    \/ DrainMarker
    \/ DrainEnd
    \/ AppendCall
    \/ RetryExhausted
    \/ \E r \in Responses : AppendOk(r)
    \/ \E r \in Responses : AppendLimited(r)
    \/ \E r \in Responses : AppendError(r)
    \/ AppendRaise
    \/ BackoffReturn
    \/ PostWaitReturn
    \/ PaceReturn

Close ==
    \/ CloseCheck
    \/ CloseSet
    \/ ClosePut

Next == Put \/ Close \/ Worker \/ TimePasses

Spec == Init /\ [][Next]_vars

\* The thread of run() keeps running, a close() call that has begun runs to its
\* end, and the duration of a sleep passes.
Fairness ==
    /\ WF_vars(Worker)
    /\ WF_vars(CloseSet)
    /\ WF_vars(ClosePut)
    /\ WF_vars(TimePasses)

FairSpec == Spec /\ Fairness

\* ---------------------------------------------------------- PagedPipeQuery
\* f"SELECT * FROM _ LIMIT {self.limit} OFFSET {self.offset}"
Sql(lim, off) == <<"SELECT * FROM _ LIMIT ", lim, " OFFSET ", off>>

\* the rows a pipe with `rows` rows gives for LIMIT lim OFFSET off
Page(rows, lim, off) ==
    LET to == IF off + lim < rows THEN off + lim ELSE rows
    IN  [i \in 1 .. (IF to > off THEN to - off ELSE 0) |-> off + i]

\* pipe.sql(sql): the response, as the rows of its "data"
PipeSql(sql) == Page(table, sql[2], sql[4])

\* PipeJsonResponse.empty
Empty(resp) == resp = <<>>

\* `self.offset += self.limit`
AdvanceByOne(off, lim) == off + 1

Advance(off, lim) == off + lim

\* no appender is running
NoWorker ==
    /\ source = <<>>
    /\ stopped = FALSE
    /\ min_interval = 0
    /\ wait_after_rate_limit = 0
    /\ pc = "none"
    /\ result = <<>>
    /\ n = 0
    /\ attempts = 0
    /\ limited = FALSE
    /\ response = None
    /\ wait = 0
    /\ elapsed = FALSE
    /\ flushing = FALSE
    /\ cpc = [p \in ClosePlaces |-> 0]
    /\ nput = 0
    /\ log = <<>>
    /\ snapshot = <<>>
    /\ outcome = "none"
    /\ collectedAt = <<>>
    /\ sequential = FALSE
    /\ putBeforeClose = 0

\* PagedPipeQuery(pipe, page_size, start_at), about to be iterated
PagedInit ==
    /\ NoWorker
    /\ \E page_size \in 0 .. MaxPageSize, start \in 0 .. MaxStartAt :
          /\ limit = page_size
          /\ offset = start
          /\ start_at = start
    /\ table \in 0 .. MaxRows
    /\ iter = "iterating"
    /\ queries = <<>>
    /\ pages = <<>>

\* __next__ returns a response: the for loop runs its body with the page
NextPage ==
    /\ iter = "iterating"
    /\ LET sql == Sql(limit, offset)
           resp == PipeSql(sql)
       IN  /\ ~Empty(resp)
           /\ queries' = Append(queries, sql)
           /\ offset' = Advance(offset, limit)
           /\ pages' = Append(pages, resp)
    /\ UNCHANGED <<source, stopped, config, worker, cpc, history, limit, table,
                   iter, start_at>>

\* __next__ raises StopIteration: the for loop ends
NextStop ==
    /\ iter = "iterating"
    /\ LET sql == Sql(limit, offset)
           resp == PipeSql(sql)
       IN  /\ Empty(resp)
           /\ queries' = Append(queries, sql)
    /\ iter' = "stopped"
    /\ UNCHANGED <<source, stopped, config, worker, cpc, history, limit,
                   offset, table, start_at, pages>>

PagedNext == NextPage \/ NextStop

PagedSpec == PagedInit /\ [][PagedNext]_vars

\* ------------------------------------------- a sink that always succeeds
\* the appender with a destination whose append always returns an ok response
OkWorker ==
    \/ LoopHead
    \/ GetFirst
    \/ QSize
    \/ DrainRecord
    \/ DrainMarker
    \/ DrainEnd
    \/ AppendCall
    \/ \E r \in Responses : AppendOk(r)
    \/ PaceReturn

OkNext ==
    \/ Put
    \/ CloseCheckRecorded
    \/ CloseSet
    \/ ClosePut
    \/ OkWorker
    \/ TimePasses

OkSpec == Init /\ [][OkNext]_vars

\* ------------------------------------------------------ close() never called
\* the appender while nobody calls close() and every append call returns
RunningWorker ==
    \/ LoopHead
    \/ GetFirst
    \/ QSize
    \/ DrainRecord
    \/ DrainEnd
    \/ AppendCall
    \/ RetryExhausted
    \/ \E r \in Responses : AppendOk(r)
    \/ \E r \in Responses : AppendLimited(r)
    \/ \E r \in Responses : AppendError(r)
    \/ BackoffReturn
    \/ PostWaitReturn
    \/ PaceReturn

RunningNext == Put \/ RunningWorker \/ TimePasses

\* The thread of run() keeps running and the duration of a sleep passes.
RunningFairness == WF_vars(RunningWorker) /\ WF_vars(TimePasses)

RunningSpec == Init /\ [][RunningNext]_vars /\ RunningFairness

\* ------------------------------------------------ _parse_retry_seconds alone
\* what the specifications of single functions leave as it is at construction
NoCalls ==
    /\ stopped = FALSE
    /\ min_interval = 0
    /\ wait_after_rate_limit = 0
    /\ attempts = 0
    /\ limited = FALSE
    /\ elapsed = FALSE
    /\ flushing = FALSE
    /\ cpc = [p \in ClosePlaces |-> 0]
    /\ nput = 0
    /\ log = <<>>
    /\ snapshot = <<>>
    /\ outcome = "none"
    /\ collectedAt = <<>>
    /\ sequential = FALSE
    /\ putBeforeClose = 0

\* values of a Retry-After header: decimal numbers, the empty string, a word and
\* an HTTP date
Unparseable == {"", "soon", "Wed, 21 Oct 2015 07:28:00 GMT"}
Hints == DOMAIN FloatTable \cup Unparseable

OnlyRetry(v) == [k \in {"Retry-After"} |-> v]
OnlyReset(w) == [k \in {"X-Ratelimit-Reset"} |-> w]

\* rate-limited responses with and without either header
ParseInputs ==
    { [status |-> rate_limited, headers |-> h] :
        h \in {NoHeaders, OnlyReset("1")}
              \cup { OnlyRetry(v) : v \in Hints }
              \cup { Both(v, "1") : v \in Hints } }

ParseInit ==
    /\ NoCalls
    /\ NoPager
    /\ source = <<>>
    /\ result = <<>>
    /\ n = 0
    /\ response \in ParseInputs
    /\ wait = 0
    /\ pc = "parse"

\* `wait = self._parse_retry_seconds(response)`
ParseRetrySeconds ==
    /\ pc = "parse"
    /\ wait' = _parse_retry_seconds(response)
    /\ pc' = "parsed"
    /\ UNCHANGED <<source, stopped, config, paging, result, n, attempts,
                   limited, response, elapsed, flushing, cpc, history>>

ParseSpec == ParseInit /\ [][ParseRetrySeconds]_vars

\* ------------------------------------------------------ _get_batch(n) alone
\* the first k records, in order
FirstRecords(k) == [i \in 1 .. k |-> i]

\* the first k records with a marker behind the first j of them
WithMarker(k, j) ==
    [i \in 1 .. (k + 1) |->
        IF i <= j THEN i ELSE IF i = j + 1 THEN marker ELSE i - 1]

\* queue contents: up to MaxQueue records, with or without a marker among them
QueueContents ==
    { FirstRecords(k) : k \in 0 .. MaxQueue }
        \cup { WithMarker(k, j) : k \in 0 .. MaxQueue - 1, j \in 0 .. MaxQueue - 1 }

\* a call of _get_batch(n) with an explicit n on a queue with some content
GetBatchInit ==
    /\ NoCalls
    /\ NoPager
    /\ source \in QueueContents
    /\ n \in 1 .. MaxN
    /\ result = <<>>
    /\ response = None
    /\ wait = 0
    /\ pc = "get"

GetBatchNext ==
    \/ GetFirst
    \/ QSize
    \/ DrainRecord
    \/ DrainMarker
    \/ DrainEnd

GetBatchSpec == GetBatchInit /\ [][GetBatchNext]_vars

TypeOK ==
    /\ pc \in {"loop", "get", "qsize", "drain", "retry", "appending", "backoff",
               "post_wait", "pace", "done", "raised", "none", "parse",
               "parsed"}
    /\ iter \in {"none", "iterating", "stopped"}
    /\ stopped \in BOOLEAN
    /\ attempts \in 0 .. default_max_retries
    /\ nput \in 0 .. MaxRecords

\* ------------------------------------------------------------------ claims
Id(k) == [i \in 1 .. k |-> i]

\* run() has ended: it returned, or an exception left it
Returned == pc \in {"done", "raised"}

\* the worker is inside a _retry_batch call
InRetry == pc \in {"retry", "appending", "backoff"}

\* the batch the worker has taken from the queue and not yet passed to append
InHand ==
    IF Collecting \/ (pc = "retry" /\ attempts = 0) THEN result ELSE <<>>

\* this step starts a call of destination.append
AppendStarts == pc # "appending" /\ pc' = "appending"

\* the batches passed to append so far stay as they are
LogOnlyGrows ==
    /\ Len(log') >= Len(log)
    /\ \A i \in DOMAIN log : log'[i].batch = log[i].batch

\* C1 as claimed: the records that are in the queue when the worker takes the
\* first of them all arrive, in enqueue order, in the one batch that is passed to
\* append.
C1_BurstInOneBatch ==
    (InRetry /\ snapshot # <<>>) => IsPrefix(Records(snapshot), result)

\* C1 amended: the records that are in the queue, with no StopSignal ahead of any
\* of them, when the worker takes the first of them all arrive, in enqueue order,
\* in the one batch that is passed to append; and a batch that has been passed to
\* append never changes, so that a record enqueued later can only be part of a
\* later, separate append call.
C1_BurstBeforeMarkerInOneBatch ==
    /\ []((InRetry /\ snapshot # <<>>) =>
            /\ IsPrefix(BeforeMarker(snapshot), result)
            /\ (attempts >= 1 => Last(log).batch = result))
    /\ [][LogOnlyGrows]_vars

C1_Witness ==
    /\ pc = "appending"
    /\ Len(BeforeMarker(snapshot)) >= 2
    /\ Last(log).batch = BeforeMarker(snapshot)
    /\ Len(log) >= 2

\* C2: the batches passed to append, one after the other, then the batch the
\* worker holds, then the records still in the queue, are the records in the
\* order in which they were enqueued.
C2_OrderPreserved ==
    Flatten(Batches) \o InHand \o Records(source) = Id(nput)

C2_Witness ==
    /\ Len(log) >= 2
    /\ Len(log[1].batch) >= 2
    /\ Flatten(Batches) = Id(MaxRecords)

\* C3: once close() has been called, run() ends: it returns or, when an append
\* call of the shutdown flush raises instead of returning, the exception leaves
\* it.  The worker blocked in q.get() on an empty queue is woken by the marker.
C3_CloseTerminates == (CloseCalls > 0) ~> Returned

C3_Witness ==
    /\ pc = "done"
    /\ nput = 0
    /\ flushing
    /\ cpc["done"] > 0

\* C4 as claimed: while stopped is set, no append call is started.
C4_NoAppendOnceStopped == [][stopped => ~AppendStarts]_vars

\* stopped is set and the worker is at the head of its loop, or run() has ended
StopObserved == stopped /\ (pc = "loop" \/ Returned)

\* C4 amended: once stopped is set and the worker is at the head of its loop or
\* run() has ended, it stays so and no append call is started, whatever is
\* enqueued.
C4_NoAppendOnceStopObserved ==
    [][StopObserved => (StopObserved' /\ ~AppendStarts /\ log' = log)]_vars

C4_Witness ==
    /\ stopped
    /\ pc = "done"
    /\ log # <<>>
    /\ Records(source) # <<>>

\* C5: the batch that was being collected when close() was called is held by the
\* worker until it is passed to append, which happens before run() ends.
C5_PartialBatchFlushed ==
    collectedAt # <<>> =>
        /\ ~Returned
        /\ Collecting \/ InRetry
        /\ IsPrefix(collectedAt, result)
        /\ (InRetry /\ attempts >= 1) => Last(log).batch = result

C5_Witness ==
    /\ pc = "appending"
    /\ flushing
    /\ collectedAt # <<>>
    /\ IsPrefix(collectedAt, Last(log).batch)

\* C6: every attempt of a _retry_batch call passes the batch of its first attempt,
\* and the records that are not part of it, whenever they were enqueued, are later
\* in the enqueue order and still in the queue.
C6_RetryKeepsBatch ==
    (InRetry /\ attempts >= 1) =>
        /\ result = Last(log).batch
        /\ Flatten(Batches) \o Records(source) = Id(nput)

C6_Witness ==
    /\ pc = "appending"
    /\ attempts >= 2
    /\ Records(source) # <<>>
    /\ result = Last(log).batch

\* C7: an exception of an append call outside the shutdown flush does not leave
\* run(): the batch is dropped, the worker is back at the head of its loop, and
\* from there, unless stopped is set, it goes on to collect the next batch.
C7_ExceptionContained ==
    /\ [][(pc = "appending" /\ ~flushing /\ outcome' = "exception") =>
            /\ pc' = "loop"
            /\ result' = <<>>
            /\ source' = source
            /\ log' = log]_vars
    /\ [][(pc = "loop" /\ ~stopped /\ pc' # pc) => pc' = "get"]_vars
    /\ [](pc = "raised" => flushing)

C7_Witness ==
    /\ pc = "loop"
    /\ outcome = "exception"
    /\ ~stopped
    /\ ~Last(log).ok

\* C8 as claimed: no failure of the shutdown flush leaves run() as an exception.
C8_FlushNeverRaises == pc # "raised"

\* C9 as claimed: once stopped is set, a worker that sleeps in the rate-limit
\* backoff or in the wait after a rate-limited batch can wake up at once.
C9_SleepsInterruptible ==
    (stopped /\ pc \in {"backoff", "post_wait"}) =>
        ENABLED (BackoffReturn \/ PostWaitReturn)

\* C10: a close() call that begins after another one has returned returns at
\* once and changes neither stopped nor the queue.
C10_SecondCloseNoEffect ==
    [][(CloseReturned > 0 /\ CloseCalls' = CloseCalls + 1) =>
            /\ cpc'["returned"] = cpc["returned"] + 1
            /\ stopped' = stopped
            /\ source' = source]_vars

C10_Witness ==
    /\ sequential
    /\ cpc["done"] >= 1
    /\ cpc["returned"] >= 1
    /\ Len(SelectSeq(source, LAMBDA x : x = marker)) = 1

\* the StopSignals put on the queue so far: one by each close() call that has
\* passed `self.source.put_nowait(StopWorker.marker)`
MarkersPut == cpc["done"]

\* C11 as claimed: however many close() calls there are and however they
\* interleave, at most one StopSignal is ever put on the queue.
C11_AtMostOneStopSignal == MarkersPut <= 1

\* C12: for a batch collected in normal operation every append call is one more
\* iteration of _retry_batch's loop and there are at most default_max_retries of
\* them; after the last one has been answered with a rate-limited response and its
\* backoff is over, no further call is made: the batch is dropped, the queue is
\* left alone and the worker goes on towards the head of its loop.
C12_BoundedRetry ==
    /\ [](~flushing => attempts <= default_max_retries)
    /\ [][(AppendStarts /\ ~flushing) =>
            (attempts' = attempts + 1 /\ attempts' <= default_max_retries)]_vars
    /\ [][(pc = "retry" /\ ~flushing /\ attempts = default_max_retries
                /\ pc' # pc) =>
            /\ outcome' = "exhausted"
            /\ pc' \in {"post_wait", "pace", "loop"}
            /\ result' = <<>>
            /\ source' = source
            /\ ~Last(log').ok]_vars

C12_Witness ==
    /\ outcome = "exhausted"
    /\ ~flushing
    /\ pc = "post_wait"
    /\ Len(log) >= 2

\* C13: an append call that is not the first one for its batch follows a
\* rate-limited response, never another non-ok response; and the step that takes
\* a non-ok response that is not rate-limited ends the _retry_batch call: the
\* batch is dropped (not ok, not put back, no new entry for it), no exception
\* leaves run(), and the worker is on its way to the head of its loop or, in the
\* shutdown flush, run() returns.
C13_ErrorNotRetried ==
    /\ [][(AppendStarts /\ attempts >= 1) =>
            (response.status = rate_limited /\ limited)]_vars
    /\ [][(pc = "appending" /\ outcome' = "error") =>
            /\ pc' \in (IF flushing THEN {"done"} ELSE {"post_wait", "pace", "loop"})
            /\ result' = <<>>
            /\ source' = source
            /\ Len(log') = Len(log)
            /\ ~Last(log').ok]_vars
    /\ [](outcome = "error" => pc # "raised")

C13_Witness ==
    /\ outcome = "error"
    /\ pc = "pace"
    /\ ~Last(log).ok
    /\ Records(source) # <<>>

Elems(s) == { s[i] : i \in DOMAIN s }
NoDuplicates(s) == \A i, j \in DOMAIN s : s[i] = s[j] => i = j

\* C14: no record is in two of the batches passed to append, and each batch is
\* passed in one _retry_batch call, which ends with its first ok result or with
\* the drop of the batch; once that call has ended, whatever its outcome, the
\* worker no longer holds the batch, and no record that was ever passed to append
\* is in the queue.
C14_AtMostOnce ==
    /\ NoDuplicates(Flatten(Batches))
    /\ Elems(Flatten(Batches)) \cap Elems(source) = {}
    /\ InRetry => (outcome = "none" /\ (attempts >= 1 => ~Last(log).ok))
    /\ outcome # "none" => result = <<>>
    /\ (Elems(Flatten(Batches)) \cap Elems(result) # {}) =>
            (InRetry /\ result = Last(log).batch)

C14_Witness ==
    /\ Len(log) >= 3
    /\ ~log[1].ok
    /\ log[2].ok
    /\ pc = "appending"
    /\ attempts >= 2

\* this step takes an item from the head of the queue
Dequeues == source' # source /\ ~IsPrefix(source, source')

\* C15: an append call is started only by the worker between two iterations of
\* _retry_batch's loop, never while another one is pending, and the first call
\* for a batch only when nothing is left of the call for the batch before; an
\* item is taken from the queue only while the worker is in _get_batch, where no
\* _retry_batch call is open: never between the first append call for a batch
\* and the end of its retries and backoff sleeps.
C15_Sequential ==
    /\ [][Dequeues => (pc \in {"get", "drain"} /\ attempts = 0 /\ ~limited)]_vars
    /\ [][InRetry => (~Dequeues /\ (InRetry' => result' = result))]_vars
    /\ [][AppendStarts =>
            (pc = "retry" /\ (Len(log') > Len(log) => attempts = 0))]_vars
    /\ []((pc \in {"get", "qsize", "drain"}) =>
            (attempts = 0 /\ response = None /\ (log # <<>> => outcome = "none")))

C15_Witness ==
    /\ pc = "drain"
    /\ Len(result) >= 2
    /\ log # <<>>
    /\ ~Last(log).ok
    /\ ~stopped

\* C16: whenever run() has ended, stopped is set: run() ends at its loop
\* condition, which has seen stopped set, or at a StopSignal it dequeued, and a
\* StopSignal is on the queue only after the close() call that put it has set
\* stopped.
C16_ReturnedImpliesStopped ==
    /\ Returned => stopped
    /\ marker \in Elems(source) => stopped
    /\ MarkersPut > 0 => stopped

C16_Witness ==
    /\ pc = "done"
    /\ flushing
    /\ stopped
    /\ log # <<>>
    /\ Last(log).ok

\* C17: once a close() call has set stopped while the worker is in the pacing
\* wait, the wait can return at once, whether or not min_interval has passed;
\* from there the worker's steps lead to the loop condition and to the end of
\* run(), and on the way nothing is taken from the queue and no append call is
\* started.
C17_CloseCutsPacingWait ==
    /\ []((pc = "pace" /\ stopped) => ENABLED PaceReturn)
    /\ [][(pc = "pace" /\ stopped /\ pc' # pc) => pc' = "loop"]_vars
    /\ [][(pc = "loop" /\ stopped /\ pc' # pc) => pc' = "done"]_vars
    /\ [][(pc \in {"pace", "loop"} /\ stopped) =>
            (~Dequeues /\ ~AppendStarts /\ log' = log /\ result' = <<>>)]_vars

C17_Witness ==
    /\ pc = "pace"
    /\ stopped
    /\ ~elapsed
    /\ log # <<>>
    /\ Records(source) # <<>>

\* C18: the queries passed to the pipe are, in order, those with LIMIT page_size
\* and OFFSET start_at, start_at + page_size, start_at + 2 * page_size, ...; the
\* pages returned are the answers to them, all non-empty, one for each query but
\* the last when the iteration has stopped; it stops at the first empty answer;
\* and the offset has advanced by page_size for each page returned and not for
\* the empty one.
C18_PagedQueries ==
    /\ \A i \in DOMAIN queries :
          queries[i] = <<"SELECT * FROM _ LIMIT ", limit, " OFFSET ",
                         start_at + (i - 1) * limit>>
    /\ \A i \in DOMAIN pages : pages[i] = PipeSql(queries[i]) /\ ~Empty(pages[i])
    /\ iter = "iterating" => Len(pages) = Len(queries)
    /\ iter = "stopped" =>
          /\ Len(queries) = Len(pages) + 1
          /\ Empty(PipeSql(Last(queries)))
    /\ offset = start_at + Len(pages) * limit

C18_Witness ==
    /\ iter = "stopped"
    /\ Len(pages) >= 2
    /\ start_at > 0
    /\ limit > 1

\* C19 as claimed: the wait after a rate-limited batch is not followed by the
\* min_interval wait.
C19_OneWaitNotTwo == [][pc = "post_wait" => pc' # "pace"]_vars

\* C19 amended: when the sleep after a rate-limited batch is over, the worker
\* goes on to the min_interval wait whenever min_interval is not 0, and only
\* with min_interval 0 straight to the head of its loop; a batch during which
\* nothing was rate-limited gets the min_interval wait alone.
C19_PostWaitThenPace ==
    /\ [][(pc = "post_wait" /\ pc' # pc) =>
            IF min_interval # 0
            THEN pc' = "pace" /\ wait' = min_interval /\ ~elapsed'
            ELSE pc' = "loop"]_vars
    /\ [][(InRetry /\ ~InRetry' /\ ~limited /\ ~flushing
                /\ outcome' # "exception") =>
            pc' = (IF min_interval # 0 THEN "pace" ELSE "loop")]_vars
    /\ [][(pc' = "pace" /\ pc \notin {"pace", "post_wait"}) =>
            (~limited \/ wait_after_rate_limit = 0)]_vars

C19_Witness ==
    /\ pc = "post_wait"
    /\ elapsed
    /\ wait = Seconds(default_wait_after_rate_limit)
    /\ min_interval = Seconds(default_min_interval)
    /\ outcome = "ok"

\* C20 as claimed: the worker is in the wait after a rate-limited batch only
\* when that batch was appended successfully.
C20_PauseOnlyAfterSuccess == pc = "post_wait" => outcome = "ok"

\* C20 amended: the wait after a rate-limited batch follows every _retry_batch
\* call of normal operation that returned after at least one rate-limited
\* response, whether its batch was appended or dropped; it does not follow a
\* call with no rate-limited response, a call of the shutdown flush or a call
\* that an exception ended.
C20_PauseAfterAnyLimitedBatch ==
    /\ [](pc = "post_wait" =>
            (outcome \in {"ok", "error", "exhausted"} /\ ~flushing))
    /\ [][(InRetry /\ ~InRetry' /\ limited /\ ~flushing
                /\ outcome' # "exception" /\ wait_after_rate_limit # 0) =>
            (pc' = "post_wait" /\ wait' = wait_after_rate_limit /\ ~elapsed')]_vars
    /\ [][(InRetry /\ ~InRetry'
                /\ (~limited \/ flushing \/ outcome' = "exception")) =>
            pc' # "post_wait"]_vars

C20_Witness ==
    /\ pc = "post_wait"
    /\ outcome \in {"error", "exhausted"}
    /\ wait = Seconds(default_wait_after_rate_limit)
    /\ ~Last(log).ok

\* C21: from the StopSignal met while draining, the worker is in the flush: the
\* batch collected so far is passed to append in at most flush_max_retries calls,
\* the worker is never in the wait after a rate-limited batch nor in the pacing
\* wait, and when the _retry_batch call returns, whatever its outcome, run()
\* returns.  When the StopSignal is the first item taken, run() returns at once
\* and no append call is made.
C21_ShutdownFlush ==
    /\ [](flushing => pc \in {"retry", "appending", "backoff", "done", "raised"})
    /\ []((flushing /\ InRetry) => attempts <= flush_max_retries)
    /\ [][(pc = "drain" /\ flushing') =>
            (pc' = "retry" /\ result' = result /\ result # <<>>)]_vars
    /\ [][(flushing /\ AppendStarts) =>
            (attempts' <= flush_max_retries /\ Last(log').batch = result)]_vars
    /\ [][(flushing /\ InRetry /\ ~InRetry' /\ outcome' # "exception") =>
            pc' = "done"]_vars
    /\ [][(pc = "get" /\ pc' # pc /\ Head(source) = marker) =>
            (pc' = "done" /\ log' = log)]_vars

C21_Witness ==
    /\ pc = "done"
    /\ flushing
    /\ outcome = "exhausted"
    /\ Len(Last(log).batch) >= 2
    /\ min_interval # 0

\* C22: once the worker has taken the StopSignal from the queue it takes no
\* further item: what is in the queue stays there, in place, and later puts only
\* add to it; the worker does not go back to _get_batch, and the only batch
\* passed to append afterwards is the one it held when it met the StopSignal.
C22_NothingAfterStopSignal ==
    /\ [][flushing =>
            /\ flushing'
            /\ ~Dequeues
            /\ IsPrefix(source, source')
            /\ pc' \notin {"loop", "get", "qsize", "drain"}]_vars
    /\ [][(flushing /\ Len(log') > Len(log)) =>
            /\ pc = "retry"
            /\ attempts = 0
            /\ log' = Append(log, [batch |-> result, ok |-> FALSE])]_vars
    /\ [][(~flushing /\ flushing') =>
            (Head(source) = marker /\ source' = Tail(source)
             /\ result' = result)]_vars

C22_Witness ==
    /\ pc = "done"
    /\ flushing
    /\ log # <<>>
    /\ Len(Records(source)) >= 2
    /\ marker \in Elems(source)

\* C23: the wait computed for a rate-limited response is the Retry-After value
\* plus half a second when the header is there and is a decimal number, and
\* default_retry_after when the header is missing, empty or not a number; the
\* X-Ratelimit-Reset header plays no part.
C23_RetrySeconds ==
    pc = "parsed" =>
        LET h == response.headers
        IN  IF "Retry-After" \notin DOMAIN h \/ h["Retry-After"] \in Unparseable
            THEN wait = 2 * default_retry_after
            ELSE \E k \in 0 .. MaxHint :
                    /\ h["Retry-After"] = Decimal(k)
                    /\ wait = k + 1

C23_Witness ==
    /\ pc = "parsed"
    /\ "Retry-After" \in DOMAIN response.headers
    /\ response.headers["Retry-After"] = "2.5"
    /\ wait = 6

\* C24: every batch that has been passed to append, and the batch of every
\* append call under way or about to be made, in normal operation and in the
\* shutdown flush, has at least one item and no StopSignal among its items.
C24_BatchesOfRecords ==
    /\ \A i \in DOMAIN log :
          log[i].batch # <<>> /\ marker \notin Elems(log[i].batch)
    /\ (Collecting \/ InRetry) =>
          (result # <<>> /\ marker \notin Elems(result))

C24_Witness ==
    /\ pc = "appending"
    /\ flushing
    /\ Len(log) >= 2
    /\ Len(Last(log).batch) = 1
    /\ marker \in Elems(source)

\* the records put before the first close() call began
BeforeClose == 1 .. putBeforeClose

\* every _retry_batch call so far has ended with an ok response
AllOk == \A i \in DOMAIN log : log[i].ok

\* C25 as claimed: when run() has returned after a close() call and the sink has
\* always succeeded, every record enqueued before close() was called has been
\* passed to append.
C25_AllBeforeCloseFlushed ==
    (Returned /\ CloseCalls > 0 /\ AllOk) =>
        BeforeClose \subseteq Elems(Flatten(Batches))

\* C25 amended: when run() has ended after a close() call, every record that the
\* worker has taken from the queue has been passed to append; every record
\* enqueued before close() was called has been passed to append if run() ended
\* at a StopSignal it dequeued, and otherwise has been passed to append or is
\* still in the queue, behind the records that were passed, in enqueue order.
C25_FlushOfWhatWasDequeued ==
    (Returned /\ CloseCalls > 0) =>
        /\ result = <<>>
        /\ flushing => BeforeClose \subseteq Elems(Flatten(Batches))
        /\ BeforeClose \subseteq Elems(Flatten(Batches)) \cup Elems(source)
        /\ Flatten(Batches) \o Records(source) = Id(nput)

C25_Witness ==
    /\ pc = "done"
    /\ flushing
    /\ AllOk
    /\ Len(log) >= 2
    /\ putBeforeClose >= 3
    /\ Len(Last(log).batch) >= 2

\* C26: while close() is never called and every append call returns, each record
\* that has been put on the queue is eventually part of a batch passed to append.
C26_EventuallyPassed ==
    \A k \in 1 .. MaxRecords : (nput >= k) ~> (k \in Elems(Flatten(Batches)))

C26_Witness ==
    /\ MaxRecords \in Elems(Flatten(Batches))
    /\ Len(log) >= 2
    /\ ~log[1].ok
    /\ CloseCalls = 0
    /\ ~stopped

\* the places a record can be in
InQueue == Elems(Records(source))
Held == IF Collecting \/ InRetry THEN Elems(result) ELSE {}
Delivered == UNION { Elems(log[i].batch) : i \in { j \in DOMAIN log : log[j].ok } }
Dropped ==
    UNION { Elems(log[i].batch) :
              i \in { j \in DOMAIN log :
                        ~log[j].ok /\ ~(j = Len(log) /\ InRetry /\ attempts >= 1) } }

\* C27: every record put so far is in exactly one of: the queue, the batch the
\* worker holds, a batch delivered by an ok append, a batch that was dropped; and
\* it is there once.
C27_Conservation ==
    /\ InQueue \cup Held \cup Delivered \cup Dropped = 1 .. nput
    /\ InQueue \cap Held = {}
    /\ InQueue \cap (Delivered \cup Dropped) = {}
    /\ Held \cap (Delivered \cup Dropped) = {}
    /\ Delivered \cap Dropped = {}
    /\ NoDuplicates(Records(source))
    /\ NoDuplicates(result)
    /\ Len(Flatten(Batches)) = Cardinality(Elems(Flatten(Batches)))

C27_Witness ==
    /\ Delivered # {}
    /\ Dropped # {}
    /\ Held # {}
    /\ pc = "backoff"

\* C28: in normal operation, with min_interval not 0, the end of a _retry_batch
\* call that returned a response, whatever the response, leads to the pacing
\* wait of min_interval, at once or after the wait of a rate-limited batch; an
\* append call that raises leads straight to the head of the loop, with no wait,
\* and the worker is in no wait until it has passed the loop condition.
C28_PaceUnlessException ==
    /\ [][(InRetry /\ ~InRetry' /\ ~flushing /\ min_interval # 0
                /\ outcome' \in {"ok", "error", "exhausted"}) =>
            /\ pc' \in {"pace", "post_wait"}
            /\ pc' = "pace" => (wait' = min_interval /\ ~elapsed')]_vars
    /\ [][(pc = "post_wait" /\ pc' # pc /\ min_interval # 0) =>
            (pc' = "pace" /\ wait' = min_interval /\ ~elapsed')]_vars
    /\ [][(pc = "appending" /\ ~flushing /\ outcome' = "exception") =>
            (pc' = "loop" /\ wait' = 0)]_vars
    /\ [](outcome = "exception" => ~Sleeping)

C28_Witness ==
    /\ pc = "loop"
    /\ outcome = "exception"
    /\ min_interval # 0
    /\ Len(log) >= 2
    /\ log[1].ok
    /\ ~stopped

\* C29: every rate-limited response is followed by the backoff sleep of
\* _parse_retry_seconds, whichever attempt it answers, the last permitted one
\* included; the sleep is left only when its duration has passed; and the
\* _retry_batch call gives up on exhausted attempts only from there.
C29_BackoffAfterLastAttempt ==
    /\ [][(pc = "appending" /\ pc' # pc /\ response'.status = rate_limited) =>
            /\ pc' = "backoff"
            /\ wait' = _parse_retry_seconds(response')
            /\ wait' > 0
            /\ ~elapsed']_vars
    /\ [][(pc = "backoff" /\ pc' # pc) => (elapsed /\ pc' = "retry")]_vars
    /\ [][(pc # "retry" /\ pc' = "retry" /\ attempts' >= 1) =>
            pc = "backoff"]_vars
    /\ [][(InRetry /\ outcome' = "exhausted") =>
            /\ pc = "retry"
            /\ attempts = MaxRetries
            /\ limited
            /\ response.status = rate_limited]_vars

C29_Witness ==
    /\ pc = "backoff"
    /\ attempts = default_max_retries
    /\ ~flushing
    /\ elapsed
    /\ wait = Seconds(default_retry_after)

\* C30 as claimed: the batch that _get_batch(n), called with an explicit n of at
\* least 1, is building and will return never has more than n records.
C30_AtMostN == pc = "drain" => Len(result) <= n

====
